---- MODULE Spec2Model ----
(***************************************************************************)
(* Model of the realtime audio session manager GeminiLiveService           *)
(* (services/geminiService.ts) together with the objects it acquires from  *)
(* the platform: two audio contexts and a microphone stream per connect()  *)
(* call, one live channel per connect() call that gets as far as opening   *)
(* it, and one script processor per channel whose on-open found capture    *)
(* resources.  connect() and handleMessage() are async: each call is a     *)
(* process that is suspended at its awaits and resumed by a later step.    *)
(* The caller of the public API (connect, stop) and the platform (channel  *)
(* events, device callbacks, the output clock) are the environment.        *)
(* The App component (App.tsx), which creates one service instance per     *)
(* connection, watches the device location and resolves the location of    *)
(* each report, is modelled beside it with one record per instance.        *)
(***************************************************************************)
EXTENDS Integers, Sequences, FiniteSets, TLC

\* ---- bounds ----
MaxConnects == 2    \* connect() calls on the instance
MaxSessions == 1    \* connect() calls while messages or frames are explored
MaxMsgs     == 2    \* inbound messages delivered over all channels
MaxFrames   == 3    \* capture frame callbacks
MaxClock    == 1    \* ticks of the output clocks, in total
MaxInstances == 2   \* service instances the App creates
MaxReports  == 1    \* tool-call messages delivered to the App's instances

Calls  == 1..MaxConnects
NoRef  == 0         \* a null reference

VARIABLES
  \* fields of the GeminiLiveService instance
  inputAudioContext, outputAudioContext, stream, processor, source,
  nextStartTime, sessionPromise, currentSession,
  \* what the UI layer last received through onStatusChange / setStatus
  status,
  \* connect() calls: position of call k, and the context whose resume() it awaits
  pc, awaited,
  \* platform objects, named by the connect() call that created them
  inCtx, outCtx, outTime, mic, chan, proc,
  \* number of release operations performed on each object
  released,
  \* inbound messages: handler i of the i-th delivered message
  handlers, scheduled, reports, responses,
  \* capture frames: the callbacks run, the levels notified, the frames sent
  frames, levels, sent,
  \* the App component: its state, its refs and the service instances it created
  isConnected, geminiRef, userLocationRef, svc, pendingDrafts, appReports

svcVars  == <<inputAudioContext, outputAudioContext, stream, processor, source,
              nextStartTime, sessionPromise, currentSession>>
objVars  == <<inCtx, outCtx, mic, chan, proc, released>>
msgVars  == <<handlers, scheduled, reports, responses>>
frmVars  == <<frames, levels, sent>>
appVars  == <<isConnected, geminiRef, userLocationRef, svc, pendingDrafts, appReports>>
\* the single instance that the service-level actions drive
oneVars  == <<svcVars, pc, awaited, objVars, outTime, msgVars, frmVars>>
vars     == <<oneVars, status, appVars>>

\* ---- the App component (App.tsx) ----
Insts == 1..MaxInstances

\* a GeoLocation {lat, lng}, in units of 1e-4 degree; null is the empty tuple
GeoLocation(lat, lng) == <<lat, lng>>
NoLocation == << >>
DefaultLocation == GeoLocation(340522, -1182437)
DeviceLocations == { GeoLocation(10000, 10000), GeoLocation(20000, 20000) }

\* a service instance the App has not created yet
NoSvc == [pc |-> "none", ctx |-> FALSE, inCtx |-> "none", outCtx |-> "none",
          stream |-> FALSE, mic |-> "none", session |-> FALSE, chan |-> "none",
          capture |-> FALSE, loc |-> NoLocation]

\* the states a new audio context may start in
AnyState    == {"suspended", "running"}
RunningOnly == {"running"}

NoProc == [cb |-> FALSE, connected |-> FALSE, srcConnected |-> FALSE, ctx |-> NoRef]

Init ==
  /\ inputAudioContext = NoRef /\ outputAudioContext = NoRef
  /\ stream = NoRef /\ processor = NoRef /\ source = NoRef
  /\ nextStartTime = 0
  /\ sessionPromise = NoRef /\ currentSession = NoRef
  /\ status = "Ready"
  /\ pc = [k \in Calls |-> "idle"]
  /\ awaited = [k \in Calls |-> NoRef]
  /\ inCtx = [k \in Calls |-> "none"]
  /\ outCtx = [k \in Calls |-> "none"]
  /\ outTime = [k \in Calls |-> 0]
  /\ mic = [k \in Calls |-> "none"]
  /\ chan = [k \in Calls |-> "none"]
  /\ proc = [k \in Calls |-> NoProc]
  /\ released = [kind \in {"inCtx", "outCtx", "mic", "proc", "src"} |-> [k \in Calls |-> 0]]
  /\ handlers = << >>
  /\ scheduled = << >>
  /\ reports = << >>
  /\ responses = << >>
  /\ frames = << >>
  /\ levels = << >>
  /\ sent = << >>
  /\ isConnected = FALSE
  /\ geminiRef = NoRef
  /\ userLocationRef = NoLocation
  /\ svc = [i \in Insts |-> NoSvc]
  /\ pendingDrafts = << >>
  /\ appReports = << >>

\* ---------------------------------------------------------------------------
\* connect()
\* ---------------------------------------------------------------------------

\* connect() throws out of an await: the caller's catch block reports it.
\* Nothing is released on this path.
ConnectThrows(k) ==
  /\ pc' = [pc EXCEPT ![k] = "failed"]
  /\ status' = "Connection Failed"

\* lines 77-78: notify, then suspend on the microphone request
RequestMic(k) ==
  /\ pc' = [pc EXCEPT ![k] = "awaitMic"]
  /\ status' = "Requesting Mic..."

\* lines 68-78 up to the first await that suspends the call; a new context
\* starts in one of the states of `initial`.  Without `overlap` the caller
\* awaits each connect() before it calls connect() again.
ConnectStart(k, initial, overlap) ==
  /\ pc[k] = "idle"
  /\ \A j \in Calls : j < k => pc[j] # "idle"
  /\ overlap \/ \A j \in Calls : pc[j] \in {"idle", "done", "failed"}
  /\ \E si \in initial, so \in initial :
       /\ inCtx' = [inCtx EXCEPT ![k] = si]
       /\ outCtx' = [outCtx EXCEPT ![k] = so]
       /\ inputAudioContext' = k
       /\ outputAudioContext' = k
       /\ IF si = "suspended"
            THEN /\ pc' = [pc EXCEPT ![k] = "awaitResumeIn"]
                 /\ awaited' = awaited
                 /\ status' = "Initializing Audio..."
            ELSE IF so = "suspended"
              THEN /\ pc' = [pc EXCEPT ![k] = "awaitResumeOut"]
                   /\ awaited' = [awaited EXCEPT ![k] = k]
                   /\ status' = "Initializing Audio..."
              ELSE /\ RequestMic(k)
                   /\ awaited' = awaited
  /\ UNCHANGED <<appVars, stream, processor, source, nextStartTime, sessionPromise, currentSession,
                 outTime, mic, chan, proc, released, msgVars, frmVars>>

\* line 74 resumes, line 75 is evaluated on the CURRENT this.outputAudioContext
ConnectResumedInput(k) ==
  /\ pc[k] = "awaitResumeIn"
  /\ \/ \* resume() of a context closed meanwhile may reject
        /\ inCtx[k] = "closed"
        /\ ConnectThrows(k)
        /\ UNCHANGED <<inCtx, awaited>>
     \/ /\ inCtx' = [inCtx EXCEPT ![k] = IF @ = "closed" THEN "closed" ELSE "running"]
        /\ IF outputAudioContext = NoRef
             THEN \* this.outputAudioContext.state on null: TypeError
                  /\ ConnectThrows(k)
                  /\ awaited' = awaited
             ELSE IF outCtx[outputAudioContext] = "suspended"
               THEN /\ pc' = [pc EXCEPT ![k] = "awaitResumeOut"]
                    /\ awaited' = [awaited EXCEPT ![k] = outputAudioContext]
                    /\ status' = status
               ELSE /\ RequestMic(k)
                    /\ awaited' = awaited
  /\ UNCHANGED <<appVars, svcVars, outCtx, outTime, mic, chan, proc, released, msgVars, frmVars>>

\* line 75 resumes
ConnectResumedOutput(k) ==
  /\ pc[k] = "awaitResumeOut"
  /\ awaited' = [awaited EXCEPT ![k] = NoRef]
  /\ \/ /\ outCtx[awaited[k]] = "closed"
        /\ ConnectThrows(k)
        /\ UNCHANGED outCtx
     \/ /\ outCtx' = [outCtx EXCEPT ![awaited[k]] = IF @ = "closed" THEN "closed" ELSE "running"]
        /\ RequestMic(k)
  /\ UNCHANGED <<appVars, svcVars, inCtx, outTime, mic, chan, proc, released, msgVars, frmVars>>

\* connect() wiring the capture callback and storing the session as soon as the
\* channel is created, before it has opened
ConnectMicGrantedWired(k) ==
  /\ pc[k] = "awaitMic"
  /\ mic' = [mic EXCEPT ![k] = "live"]
  /\ stream' = k
  /\ status' = "Connecting to HQ..."
  /\ chan' = [chan EXCEPT ![k] = "connecting"]
  /\ sessionPromise' = k
  /\ currentSession' = k
  /\ pc' = [pc EXCEPT ![k] = "awaitSession"]
  /\ IF inputAudioContext = NoRef
       THEN UNCHANGED <<source, processor, proc>>
       ELSE /\ source' = k
            /\ processor' = k
            /\ proc' = [proc EXCEPT ![k] = [cb |-> TRUE, connected |-> TRUE,
                                            srcConnected |-> TRUE,
                                            ctx |-> inputAudioContext]]
  /\ UNCHANGED <<appVars, inputAudioContext, outputAudioContext, nextStartTime,
                 awaited, inCtx, outCtx, outTime, released, msgVars, frmVars>>

\* line 78 resolves; lines 80-135 up to the await of the session promise
ConnectMicGranted(k) ==
  /\ pc[k] = "awaitMic"
  /\ mic' = [mic EXCEPT ![k] = "live"]
  /\ stream' = k
  /\ status' = "Connecting to HQ..."
  /\ chan' = [chan EXCEPT ![k] = "connecting"]
  /\ sessionPromise' = k
  /\ pc' = [pc EXCEPT ![k] = "awaitSession"]
  /\ UNCHANGED <<appVars, inputAudioContext, outputAudioContext, processor, source, nextStartTime,
                 currentSession, awaited, inCtx, outCtx, outTime, proc, released,
                 msgVars, frmVars>>

\* line 78 rejects: permission denied
ConnectMicDenied(k) ==
  /\ pc[k] = "awaitMic"
  /\ ConnectThrows(k)
  /\ UNCHANGED <<appVars, svcVars, awaited, objVars, outTime, msgVars, frmVars>>

\* line 135 resumes with the session of channel k, which has opened
ConnectSessionResolved(k) ==
  /\ pc[k] = "awaitSession"
  /\ chan[k] \in {"open", "closed"}
  /\ currentSession' = k
  /\ pc' = [pc EXCEPT ![k] = "done"]
  /\ UNCHANGED <<appVars, inputAudioContext, outputAudioContext, stream, processor, source,
                 nextStartTime, sessionPromise, status, awaited, objVars, outTime,
                 msgVars, frmVars>>

\* line 135 rejects: the channel never opened
ConnectSessionRejected(k) ==
  /\ pc[k] = "awaitSession"
  /\ chan[k] \in {"connecting", "failed"}
  /\ chan' = [chan EXCEPT ![k] = "failed"]
  /\ ConnectThrows(k)
  /\ UNCHANGED <<appVars, svcVars, awaited, inCtx, outCtx, mic, proc, released, outTime,
                 msgVars, frmVars>>

\* ---------------------------------------------------------------------------
\* handleOpen()
\* ---------------------------------------------------------------------------
HandleOpen(k) ==
  /\ status' = "Live"
  /\ IF inputAudioContext = NoRef \/ stream = NoRef
       THEN UNCHANGED <<source, processor, proc>>
       ELSE /\ source' = k
            /\ processor' = k
            /\ proc' = [proc EXCEPT ![k] = [cb |-> TRUE, connected |-> TRUE,
                                            srcConnected |-> TRUE,
                                            ctx |-> inputAudioContext]]

ChannelOpen(k) ==
  /\ chan[k] = "connecting"
  /\ chan' = [chan EXCEPT ![k] = "open"]
  /\ HandleOpen(k)
  /\ UNCHANGED <<appVars, inputAudioContext, outputAudioContext, stream, nextStartTime,
                 sessionPromise, currentSession, pc, awaited, inCtx, outCtx, mic,
                 released, outTime, msgVars, frmVars>>

\* ---------------------------------------------------------------------------
\* stop()
\* ---------------------------------------------------------------------------
Bump(kind, ref) == IF ref = NoRef THEN released[kind]
                   ELSE [released[kind] EXCEPT ![ref] = @ + 1]

\* stop() without lines 233-237: the released resources stay referenced
StopEffectsKeepRefs ==
  /\ proc' = [j \in Calls |->
                [proc[j] EXCEPT
                   !.cb = IF j = processor THEN FALSE ELSE @,
                   !.connected = IF j = processor THEN FALSE ELSE @,
                   !.srcConnected = IF j = source THEN FALSE ELSE @]]
  /\ mic' = [j \in Calls |-> IF j = stream THEN "stopped" ELSE mic[j]]
  /\ inCtx' = [j \in Calls |-> IF j = inputAudioContext THEN "closed" ELSE inCtx[j]]
  /\ outCtx' = [j \in Calls |-> IF j = outputAudioContext THEN "closed" ELSE outCtx[j]]
  /\ released' = [released EXCEPT !["proc"] = Bump("proc", processor),
                                  !["src"] = Bump("src", source),
                                  !["mic"] = Bump("mic", stream),
                                  !["inCtx"] = Bump("inCtx", inputAudioContext),
                                  !["outCtx"] = Bump("outCtx", outputAudioContext)]
  /\ UNCHANGED <<processor, source, stream, inputAudioContext, outputAudioContext>>
  /\ currentSession' = NoRef
  /\ status' = "Disconnected"

\* stop(), lines 216-239
StopEffects ==
  /\ proc' = [j \in Calls |->
                [proc[j] EXCEPT
                   !.cb = IF j = processor THEN FALSE ELSE @,
                   !.connected = IF j = processor THEN FALSE ELSE @,
                   !.srcConnected = IF j = source THEN FALSE ELSE @]]
  /\ mic' = [j \in Calls |-> IF j = stream THEN "stopped" ELSE mic[j]]
  /\ inCtx' = [j \in Calls |-> IF j = inputAudioContext THEN "closed" ELSE inCtx[j]]
  /\ outCtx' = [j \in Calls |-> IF j = outputAudioContext THEN "closed" ELSE outCtx[j]]
  /\ released' = [released EXCEPT !["proc"] = Bump("proc", processor),
                                  !["src"] = Bump("src", source),
                                  !["mic"] = Bump("mic", stream),
                                  !["inCtx"] = Bump("inCtx", inputAudioContext),
                                  !["outCtx"] = Bump("outCtx", outputAudioContext)]
  /\ processor' = NoRef
  /\ source' = NoRef
  /\ stream' = NoRef
  /\ inputAudioContext' = NoRef
  /\ outputAudioContext' = NoRef
  /\ currentSession' = NoRef
  /\ status' = "Disconnected"

Stop ==
  /\ StopEffects
  /\ UNCHANGED <<appVars, nextStartTime, sessionPromise, pc, awaited, chan, outTime, msgVars, frmVars>>

\* the channel's onclose callback (lines 92-95)
ChannelClose(k) ==
  /\ chan[k] \in {"connecting", "open"}
  /\ chan' = [chan EXCEPT ![k] = IF @ = "open" THEN "closed" ELSE "failed"]
  /\ StopEffects
  /\ UNCHANGED <<appVars, nextStartTime, sessionPromise, pc, awaited, outTime, msgVars, frmVars>>

\* the channel's onerror callback (lines 96-99)
ChannelError(k) ==
  /\ chan[k] \in {"connecting", "open"}
  /\ status' = "Connection Error"
  /\ UNCHANGED <<appVars, svcVars, pc, awaited, objVars, outTime, msgVars, frmVars>>

\* ---------------------------------------------------------------------------
\* inbound messages
\* ---------------------------------------------------------------------------
Max(a, b) == IF a >= b THEN a ELSE b

FC(id, name, args) == [id |-> id, name |-> name, args |-> args]
NoTool       == [kind |-> "none", calls |-> << >>]
Malformed    == [kind |-> "malformed", calls |-> << >>]   \* toolCall without functionCalls
Calls1(cs)   == [kind |-> "calls", calls |-> cs]
Msg(audio, dur, tool) == [audio |-> audio, dur |-> dur, tool |-> tool]

NoMsg == Msg("none", 0, NoTool)

\* inbound messages that carry a tool call, some behind an audio payload
ToolMessages ==
  { Msg("none", 0, Calls1(<<FC(1, "reportEmergency", "a")>>)),
    Msg("bad", 0, Calls1(<<FC(1, "reportEmergency", "a"), FC(2, "other", "c"),
                           FC(3, "reportEmergency", "b")>>)),
    Msg("ok", 1, Malformed),
    Msg("none", 0, Malformed),
    Msg("none", 0, Calls1(<<FC(1, "other", "a")>>)) }

\* inbound messages that carry audio only
AudioMessages ==
  { Msg("ok", 2, NoTool), Msg("bad", 0, NoTool) }

IsReport(fc) == fc.name = "reportEmergency"

\* the tool-call loop without the name test of line 196
HandleToolCallsAnyName(i, m, hs) ==
  IF m.tool.kind = "none"
    THEN /\ handlers' = [hs EXCEPT ![i] = [msg |-> NoMsg, state |-> "done"]]
         /\ UNCHANGED <<reports, responses>>
  ELSE IF m.tool.kind = "malformed"
    THEN /\ handlers' = [hs EXCEPT ![i] = [msg |-> NoMsg, state |-> "threw"]]
         /\ UNCHANGED <<reports, responses>>
  ELSE LET rs == m.tool.calls IN
         /\ handlers' = [hs EXCEPT ![i] = [msg |-> NoMsg, state |-> "done"]]
         /\ reports' = reports \o [j \in 1..Len(rs) |-> [msg |-> i, args |-> rs[j].args]]
         /\ responses' = IF Len(rs) > 0 /\ currentSession # NoRef
                           THEN Append(responses,
                                       [msg |-> i, chan |-> currentSession,
                                        ids |-> [j \in 1..Len(rs) |-> rs[j].id]])
                           ELSE responses

\* the tool-call loop with an else branch that answers an unrecognized name
HandleToolCallsAckUnknown(i, m, hs) ==
  IF m.tool.kind = "none"
    THEN /\ handlers' = [hs EXCEPT ![i] = [msg |-> NoMsg, state |-> "done"]]
         /\ UNCHANGED <<reports, responses>>
  ELSE IF m.tool.kind = "malformed"
    THEN /\ handlers' = [hs EXCEPT ![i] = [msg |-> NoMsg, state |-> "threw"]]
         /\ UNCHANGED <<reports, responses>>
  ELSE LET rs == SelectSeq(m.tool.calls, IsReport)
           as == m.tool.calls IN
         /\ handlers' = [hs EXCEPT ![i] = [msg |-> NoMsg, state |-> "done"]]
         /\ reports' = reports \o [j \in 1..Len(rs) |-> [msg |-> i, args |-> rs[j].args]]
         /\ responses' = IF Len(as) > 0 /\ currentSession # NoRef
                           THEN Append(responses,
                                       [msg |-> i, chan |-> currentSession,
                                        ids |-> [j \in 1..Len(as) |-> as[j].id]])
                           ELSE responses

\* the tool-call loop sending a response from inside the loop, one per request
HandleToolCallsSendEach(i, m, hs) ==
  IF m.tool.kind = "none"
    THEN /\ handlers' = [hs EXCEPT ![i] = [msg |-> NoMsg, state |-> "done"]]
         /\ UNCHANGED <<reports, responses>>
  ELSE IF m.tool.kind = "malformed"
    THEN /\ handlers' = [hs EXCEPT ![i] = [msg |-> NoMsg, state |-> "threw"]]
         /\ UNCHANGED <<reports, responses>>
  ELSE LET rs == SelectSeq(m.tool.calls, IsReport) IN
         /\ handlers' = [hs EXCEPT ![i] = [msg |-> NoMsg, state |-> "done"]]
         /\ reports' = reports \o [j \in 1..Len(rs) |-> [msg |-> i, args |-> rs[j].args]]
         /\ responses' = IF currentSession # NoRef
                           THEN responses \o
                                  [j \in 1..Len(rs) |->
                                     [msg |-> i, chan |-> currentSession,
                                      ids |-> <<rs[j].id>>]]
                           ELSE responses

\* lines 193-212 for the i-th delivered message m; hs holds its handler at index i.
\* A handler that has returned or thrown keeps no message.
HandleToolCalls(i, m, hs) ==
  IF m.tool.kind = "none"
    THEN /\ handlers' = [hs EXCEPT ![i] = [msg |-> NoMsg, state |-> "done"]]
         /\ UNCHANGED <<reports, responses>>
  ELSE IF m.tool.kind = "malformed"
    THEN \* for..of over undefined: the async handler rejects
         /\ handlers' = [hs EXCEPT ![i] = [msg |-> NoMsg, state |-> "threw"]]
         /\ UNCHANGED <<reports, responses>>
  ELSE LET rs == SelectSeq(m.tool.calls, IsReport) IN
         /\ handlers' = [hs EXCEPT ![i] = [msg |-> NoMsg, state |-> "done"]]
         /\ reports' = reports \o [j \in 1..Len(rs) |-> [msg |-> i, args |-> rs[j].args]]
         /\ responses' = IF Len(rs) > 0 /\ currentSession # NoRef
                           THEN Append(responses,
                                       [msg |-> i, chan |-> currentSession,
                                        ids |-> [j \in 1..Len(rs) |-> rs[j].id]])
                           ELSE responses

\* handleMessage with line 178 assigning the output clock without the max
ChannelMessageNoMax(k, m) ==
  /\ chan[k] = "open"
  /\ Len(handlers) < MaxMsgs
  /\ LET i == Len(handlers) + 1
         h == [msg |-> m, state |-> "decoding", chan |-> k] IN
       IF m.audio # "none" /\ outputAudioContext # NoRef
         THEN /\ nextStartTime' = outTime[outputAudioContext]
              /\ handlers' = Append(handlers, h)
              /\ UNCHANGED <<reports, responses>>
         ELSE /\ nextStartTime' = nextStartTime
              /\ HandleToolCalls(i, m, Append(handlers, h))
  /\ UNCHANGED <<appVars, inputAudioContext, outputAudioContext, stream, processor, source,
                 sessionPromise, currentSession, status, pc, awaited, objVars, outTime,
                 scheduled, frmVars>>

\* handleMessage is entered (lines 173-181) for a message of channel k: runs to
\* the decode await, or, without a playable payload, to the end
ChannelMessage(k, m) ==
  /\ chan[k] = "open"
  /\ Len(handlers) < MaxMsgs
  /\ LET i == Len(handlers) + 1
         h == [msg |-> m, state |-> "decoding", chan |-> k] IN
       IF m.audio # "none" /\ outputAudioContext # NoRef
         THEN /\ nextStartTime' = Max(nextStartTime, outTime[outputAudioContext])
              /\ handlers' = Append(handlers, h)
              /\ UNCHANGED <<reports, responses>>
         ELSE /\ nextStartTime' = nextStartTime
              /\ HandleToolCalls(i, m, Append(handlers, h))
  /\ UNCHANGED <<appVars, inputAudioContext, outputAudioContext, stream, processor, source,
                 sessionPromise, currentSession, status, pc, awaited, objVars, outTime,
                 scheduled, frmVars>>

\* handleMessage without the catch of line 187: a decode failure rejects the handler
DecodeSettledUncaught(i) ==
  /\ i \in 1..Len(handlers)
  /\ handlers[i].state = "decoding"
  /\ LET m == handlers[i].msg IN
       IF m.audio = "ok" /\ outputAudioContext # NoRef
         THEN /\ scheduled' = Append(scheduled,
                                     [msg |-> i, ctx |-> outputAudioContext,
                                      start |-> nextStartTime, dur |-> m.dur])
              /\ nextStartTime' = nextStartTime + m.dur
              /\ HandleToolCalls(i, m, handlers)
         ELSE /\ handlers' = [handlers EXCEPT ![i] = [msg |-> NoMsg, state |-> "threw"]]
              /\ UNCHANGED <<scheduled, nextStartTime, reports, responses>>
  /\ UNCHANGED <<appVars, inputAudioContext, outputAudioContext, stream, processor, source,
                 sessionPromise, currentSession, status, pc, awaited, objVars, outTime,
                 frmVars>>

\* the decode await of handler i settles (lines 181-212)
DecodeSettled(i) ==
  /\ i \in 1..Len(handlers)
  /\ handlers[i].state = "decoding"
  /\ LET m == handlers[i].msg IN
       /\ IF m.audio = "ok" /\ outputAudioContext # NoRef
            THEN /\ scheduled' = Append(scheduled,
                                        [msg |-> i, ctx |-> outputAudioContext,
                                         start |-> nextStartTime, dur |-> m.dur])
                 /\ nextStartTime' = nextStartTime + m.dur
            ELSE \* decode error, or createBufferSource on null: caught at line 187
                 UNCHANGED <<scheduled, nextStartTime>>
       /\ HandleToolCalls(i, m, handlers)
  /\ UNCHANGED <<appVars, inputAudioContext, outputAudioContext, stream, processor, source,
                 sessionPromise, currentSession, status, pc, awaited, objVars, outTime,
                 frmVars>>

\* ---------------------------------------------------------------------------
\* capture frames and the output clock
\* ---------------------------------------------------------------------------
\* onaudioprocess that keeps a frame it could not send and sends it with the
\* next frame that finds a session
AudioProcessQueued(p) ==
  /\ proc[p].cb /\ proc[p].connected
  /\ inCtx[proc[p].ctx] = "running"
  /\ Len(frames) < MaxFrames
  /\ frames' = Append(frames, [proc |-> p, session |-> currentSession])
  /\ levels' = Append(levels, Len(frames) + 1)
  /\ LET n == Len(frames)
         kept == IF n > 0 /\ frames[n].session = NoRef
                   THEN <<[frame |-> n, chan |-> currentSession]>> ELSE << >> IN
       sent' = IF currentSession # NoRef
                 THEN (sent \o kept) \o <<[frame |-> n + 1, chan |-> currentSession]>>
                 ELSE sent
  /\ UNCHANGED <<appVars, svcVars, status, pc, awaited, objVars, outTime, msgVars>>

\* processor.onaudioprocess (lines 145-167) of the processor created by channel p
AudioProcess(p) ==
  /\ proc[p].cb /\ proc[p].connected
  /\ inCtx[proc[p].ctx] = "running"
  /\ Len(frames) < MaxFrames
  /\ frames' = Append(frames, [proc |-> p, session |-> currentSession])
  /\ levels' = Append(levels, Len(frames) + 1)
  /\ sent' = IF currentSession # NoRef
               THEN Append(sent, [frame |-> Len(frames) + 1, chan |-> currentSession])
               ELSE sent
  /\ UNCHANGED <<appVars, svcVars, status, pc, awaited, objVars, outTime, msgVars>>

RECURSIVE SumTo(_, _)
SumTo(f, n) == IF n = 0 THEN 0 ELSE f[n] + SumTo(f, n - 1)
Ticks == SumTo(outTime, MaxConnects)

\* currentTime of the output context the instance reads advances while it runs
Tick(c) ==
  /\ c = outputAudioContext
  /\ outCtx[c] = "running"
  /\ Ticks < MaxClock
  /\ outTime' = [outTime EXCEPT ![c] = @ + 1]
  /\ UNCHANGED <<appVars, svcVars, status, pc, awaited, objVars, msgVars, frmVars>>

\* ---------------------------------------------------------------------------
\* the App: geolocation watch, toggleConnection, the report callback
\* ---------------------------------------------------------------------------
\* JavaScript values of the draft's latitude and longitude fields
Undefined == [t |-> "undefined", v |-> 0]
Null      == [t |-> "null", v |-> 0]
NaN       == [t |-> "nan", v |-> 0]
Num(n)    == [t |-> "number", v |-> n]

\* Number(x)
ToNumber(x) == IF x.t = "number" THEN x
               ELSE IF x.t = "null" THEN Num(0)
               ELSE NaN
IsNaN(x) == x.t = "nan"

Draft(lat, lng) == [latitude |-> lat, longitude |-> lng]

\* argument objects of reportEmergency tool calls
Drafts ==
  { Draft(Undefined, Undefined), Draft(Num(0), Num(0)), Draft(Num(50000), Num(70000)),
    Draft(Num(0), Num(70000)), Draft(Num(50000), Undefined), Draft(Null, Num(70000)) }

\* lines 73-75
HasProvidedCoords(data) ==
  LET providedLat == ToNumber(data.latitude)
      providedLng == ToNumber(data.longitude) IN
    /\ ~IsNaN(providedLat) /\ ~IsNaN(providedLng)
    /\ (providedLat.v # 0 \/ providedLng.v # 0)

\* the fallback written with the device location tried first
ResolveLocationDeviceFirst(data, device) ==
  LET afterDevice == IF device # NoLocation THEN device
                     ELSE IF HasProvidedCoords(data)
                       THEN GeoLocation(ToNumber(data.latitude).v, ToNumber(data.longitude).v)
                       ELSE NoLocation IN
    IF afterDevice = NoLocation THEN DefaultLocation ELSE afterDevice

\* lines 70-94: reportLocation, given the value read from the location ref
ResolveLocation(data, device) ==
  LET afterFallback == IF HasProvidedCoords(data)
                         THEN GeoLocation(ToNumber(data.latitude).v, ToNumber(data.longitude).v)
                         ELSE IF device # NoLocation THEN device
                         ELSE NoLocation IN
    IF afterFallback = NoLocation THEN DefaultLocation ELSE afterFallback

\* the report callback resolving against the location passed to connect()
OnReportSubmittedStale(i, data) ==
  appReports' = <<[location |-> ResolveLocation(data, svc[i].loc),
                   device |-> ~HasProvidedCoords(data) /\ svc[i].loc # NoLocation]>>
                  \o appReports

\* service.onReportSubmitted of instance i (lines 69-113)
OnReportSubmitted(i, data) ==
  appReports' = <<[location |-> ResolveLocation(data, userLocationRef),
                   device |-> ~HasProvidedCoords(data) /\ userLocationRef # NoLocation]>>
                  \o appReports

\* the geolocation watch delivers a position (lines 33-40)
WatchPosition(loc) ==
  /\ userLocationRef' = loc
  /\ UNCHANGED <<oneVars, status, isConnected, geminiRef, svc, pendingDrafts, appReports>>

\* stop() of an instance, on its record
SvcStopped(r) ==
  [r EXCEPT !.capture = FALSE,
            !.mic = IF r.stream THEN "stopped" ELSE @,
            !.inCtx = IF r.ctx THEN "closed" ELSE @,
            !.outCtx = IF r.ctx THEN "closed" ELSE @,
            !.stream = FALSE, !.ctx = FALSE, !.session = FALSE]

\* the catch block of toggleConnection (lines 118-122)
ConnectFailed(i) ==
  /\ svc' = [svc EXCEPT ![i].pc = "failed"]
  /\ status' = "Connection Failed"
  /\ isConnected' = FALSE

\* toggleConnection (lines 54-123), up to the first suspension of connect();
\* at most n instances are created, their contexts starting in a state of `initial`
ToggleConnection(n, initial) ==
  /\ IF isConnected
       THEN /\ svc' = IF geminiRef = NoRef THEN svc
                      ELSE [svc EXCEPT ![geminiRef] = SvcStopped(@)]
            /\ isConnected' = FALSE
            /\ status' = "Ready"
            /\ UNCHANGED geminiRef
       ELSE \E i \in 1..n, si \in initial, so \in initial :
              /\ svc[i].pc = "none"
              /\ \A j \in Insts : j < i => svc[j].pc # "none"
              /\ geminiRef' = i
              /\ svc' = [svc EXCEPT ![i] =
                           [NoSvc EXCEPT !.ctx = TRUE, !.inCtx = si, !.outCtx = so,
                                         !.loc = userLocationRef,
                                         !.pc = IF si = "suspended" THEN "awaitResumeIn"
                                                ELSE IF so = "suspended" THEN "awaitResumeOut"
                                                ELSE "awaitMic"]]
              /\ status' = IF si = "suspended" \/ so = "suspended"
                             THEN "Initializing Audio..." ELSE "Requesting Mic..."
              /\ UNCHANGED isConnected
  /\ UNCHANGED <<oneVars, userLocationRef, pendingDrafts, appReports>>

\* connect() of instance i resumes from line 74; line 75 then reads the state
\* of this.outputAudioContext
SvcResumedInput(i) ==
  /\ svc[i].pc = "awaitResumeIn"
  /\ \/ \* resume() of a context closed meanwhile may reject
        /\ svc[i].inCtx = "closed"
        /\ ConnectFailed(i)
     \/ IF ~svc[i].ctx
          THEN \* this.outputAudioContext is null: TypeError
               ConnectFailed(i)
          ELSE /\ svc' = [svc EXCEPT ![i].inCtx = "running",
                                     ![i].pc = IF svc[i].outCtx = "suspended"
                                                 THEN "awaitResumeOut" ELSE "awaitMic"]
               /\ status' = IF svc[i].outCtx = "suspended" THEN status
                             ELSE "Requesting Mic..."
               /\ UNCHANGED isConnected
  /\ UNCHANGED <<oneVars, geminiRef, userLocationRef, pendingDrafts, appReports>>

\* connect() of instance i resumes from line 75
SvcResumedOutput(i) ==
  /\ svc[i].pc = "awaitResumeOut"
  /\ \/ /\ svc[i].outCtx = "closed"
        /\ ConnectFailed(i)
     \/ /\ svc' = [svc EXCEPT ![i].outCtx = IF @ = "closed" THEN "closed" ELSE "running",
                               ![i].pc = "awaitMic"]
        /\ status' = "Requesting Mic..."
        /\ UNCHANGED isConnected
  /\ UNCHANGED <<oneVars, geminiRef, userLocationRef, pendingDrafts, appReports>>

\* line 78 resolves for instance i; lines 80-135
SvcMicGranted(i) ==
  /\ svc[i].pc = "awaitMic"
  /\ svc' = [svc EXCEPT ![i].stream = TRUE, ![i].mic = "live",
                        ![i].chan = "connecting", ![i].pc = "awaitSession"]
  /\ status' = "Connecting to HQ..."
  /\ UNCHANGED <<oneVars, isConnected, geminiRef, userLocationRef, pendingDrafts, appReports>>

\* line 78 rejects for instance i
SvcMicDenied(i) ==
  /\ svc[i].pc = "awaitMic"
  /\ ConnectFailed(i)
  /\ UNCHANGED <<oneVars, geminiRef, userLocationRef, pendingDrafts, appReports>>

\* on-open of the channel of instance i (handleOpen)
SvcChannelOpen(i) ==
  /\ svc[i].chan = "connecting"
  /\ svc' = [svc EXCEPT ![i].chan = "open",
                        ![i].capture = svc[i].ctx /\ svc[i].stream]
  /\ status' = "Live"
  /\ UNCHANGED <<oneVars, isConnected, geminiRef, userLocationRef, pendingDrafts, appReports>>

\* line 135 resolves for instance i: connect() returns to line 117
SvcSessionResolved(i) ==
  /\ svc[i].pc = "awaitSession"
  /\ svc[i].chan \in {"open", "closed"}
  /\ svc' = [svc EXCEPT ![i].session = TRUE, ![i].pc = "done"]
  /\ isConnected' = TRUE
  /\ UNCHANGED <<oneVars, status, geminiRef, userLocationRef, pendingDrafts, appReports>>

\* line 135 rejects for instance i
SvcSessionRejected(i) ==
  /\ svc[i].pc = "awaitSession"
  /\ svc[i].chan \in {"connecting", "failed"}
  /\ svc' = [svc EXCEPT ![i].chan = "failed", ![i].pc = "failed"]
  /\ status' = "Connection Failed"
  /\ isConnected' = FALSE
  /\ UNCHANGED <<oneVars, geminiRef, userLocationRef, pendingDrafts, appReports>>

\* on-close of the channel of instance i
SvcChannelClose(i) ==
  /\ svc[i].chan \in {"connecting", "open"}
  /\ svc' = [svc EXCEPT ![i] = [SvcStopped(@) EXCEPT
                                  !.chan = IF svc[i].chan = "open" THEN "closed" ELSE "failed"]]
  /\ status' = "Disconnected"
  /\ UNCHANGED <<oneVars, isConnected, geminiRef, userLocationRef, pendingDrafts, appReports>>

\* on-error of the channel of instance i
SvcChannelError(i) ==
  /\ svc[i].chan \in {"connecting", "open"}
  /\ status' = "Connection Error"
  /\ UNCHANGED <<oneVars, appVars>>

\* the report callback resolving against the stale location, on delivery
SvcToolCallStale(i, data, audio) ==
  /\ svc[i].chan = "open"
  /\ Len(appReports) + Len(pendingDrafts) < MaxReports
  /\ IF audio /\ svc[i].ctx
       THEN /\ pendingDrafts' = Append(pendingDrafts, [inst |-> i, data |-> data])
            /\ UNCHANGED appReports
       ELSE /\ OnReportSubmittedStale(i, data)
            /\ UNCHANGED pendingDrafts
  /\ UNCHANGED <<oneVars, status, isConnected, geminiRef, userLocationRef, svc>>

\* handleMessage of instance i for a message with one reportEmergency call:
\* behind an audio payload the handler first suspends at the decode await
SvcToolCall(i, data, audio) ==
  /\ svc[i].chan = "open"
  /\ Len(appReports) + Len(pendingDrafts) < MaxReports
  /\ IF audio /\ svc[i].ctx
       THEN /\ pendingDrafts' = Append(pendingDrafts, [inst |-> i, data |-> data])
            /\ UNCHANGED appReports
       ELSE /\ OnReportSubmitted(i, data)
            /\ UNCHANGED pendingDrafts
  /\ UNCHANGED <<oneVars, status, isConnected, geminiRef, userLocationRef, svc>>

\* the report callback resolving against the stale location, after the decode
SvcDecodeSettledStale(n) ==
  /\ n \in 1..Len(pendingDrafts)
  /\ OnReportSubmittedStale(pendingDrafts[n].inst, pendingDrafts[n].data)
  /\ pendingDrafts' = [j \in 1..(Len(pendingDrafts) - 1) |->
                         IF j < n THEN pendingDrafts[j] ELSE pendingDrafts[j + 1]]
  /\ UNCHANGED <<oneVars, status, isConnected, geminiRef, userLocationRef, svc>>

\* the decode await of a suspended handler settles: its tool call is handled
SvcDecodeSettled(n) ==
  /\ n \in 1..Len(pendingDrafts)
  /\ OnReportSubmitted(pendingDrafts[n].inst, pendingDrafts[n].data)
  /\ pendingDrafts' = [j \in 1..(Len(pendingDrafts) - 1) |->
                         IF j < n THEN pendingDrafts[j] ELSE pendingDrafts[j + 1]]
  /\ UNCHANGED <<oneVars, status, isConnected, geminiRef, userLocationRef, svc>>

\* ---------------------------------------------------------------------------
\* specifications
\* ---------------------------------------------------------------------------
\* connect(), stop() and the channel's lifecycle callbacks
Lifecycle(n, initial, overlap) ==
  \/ \E k \in 1..n : ConnectStart(k, initial, overlap)
  \/ \E k \in Calls : ConnectMicGranted(k)
  \/ \E k \in Calls : ConnectMicDenied(k)
  \/ \E k \in Calls : ConnectSessionResolved(k)
  \/ \E k \in Calls : ConnectSessionRejected(k)
  \/ \E k \in Calls : ChannelOpen(k)
  \/ \E k \in Calls : ChannelClose(k)
  \/ Stop

\* the on-error callback, which only notifies a status
Errors == \E k \in Calls : ChannelError(k)

Resumes ==
  \/ \E k \in Calls : ConnectResumedInput(k)
  \/ \E k \in Calls : ConnectResumedOutput(k)

Inbound(msgs) ==
  \/ \E k \in Calls, m \in msgs : ChannelMessage(k, m)
  \/ \E i \in 1..MaxMsgs : DecodeSettled(i)

Clock == \E c \in Calls : Tick(c)

Capture == \E p \in Calls : AudioProcess(p)

\* the session lifecycle with connect() re-entered while earlier calls are in flight
NextLifecycle == Lifecycle(MaxConnects, RunningOnly, TRUE) \/ Errors
SpecLifecycle == Init /\ [][NextLifecycle]_vars

\* a caller that awaits each connect() and may call it again on the same
\* instance, with the capture callback
NextReconnect == Lifecycle(MaxConnects, RunningOnly, FALSE) \/ Capture
SpecReconnect == Init /\ [][NextReconnect]_vars

\* sessions one after the other on the same instance, with inbound audio; the
\* output clocks stand still
NextReplay == Lifecycle(MaxConnects, RunningOnly, FALSE) \/ Inbound(AudioMessages)
SpecReplay == Init /\ [][NextReplay]_vars

\* a caller that awaits each connect(), with the capture callback
NextSession == Lifecycle(MaxSessions, AnyState, FALSE) \/ Errors \/ Resumes \/ Capture
SpecSession == Init /\ [][NextSession]_vars

\* the lifecycle with inbound tool calls
NextTools == Lifecycle(MaxSessions, RunningOnly, FALSE) \/ Inbound(ToolMessages)
SpecTools == Init /\ [][NextTools]_vars

\* the lifecycle with inbound audio and the output clock
NextPlayback == Lifecycle(MaxSessions, RunningOnly, FALSE) \/ Inbound(AudioMessages) \/ Clock
SpecPlayback == Init /\ [][NextPlayback]_vars

\* the App creating, connecting and stopping its service instances
AppLifecycle(n, initial) ==
  \/ ToggleConnection(n, initial)
  \/ \E i \in Insts : SvcMicGranted(i)
  \/ \E i \in Insts : SvcMicDenied(i)
  \/ \E i \in Insts : SvcChannelOpen(i)
  \/ \E i \in Insts : SvcSessionResolved(i)
  \/ \E i \in Insts : SvcSessionRejected(i)
  \/ \E i \in Insts : SvcChannelClose(i)

AppErrors == \E i \in Insts : SvcChannelError(i)

AppResumes ==
  \/ \E i \in Insts : SvcResumedInput(i)
  \/ \E i \in Insts : SvcResumedOutput(i)

Geolocation == \E loc \in DeviceLocations : WatchPosition(loc)

AppInbound ==
  \/ \E i \in Insts, data \in Drafts, audio \in BOOLEAN : SvcToolCall(i, data, audio)
  \/ \E n \in 1..MaxReports : SvcDecodeSettled(n)

\* the App toggling its connection, any number of times while connect() is in flight
NextApp == AppLifecycle(MaxInstances, AnyState) \/ AppErrors \/ AppResumes
SpecApp == Init /\ [][NextApp]_vars

\* the App with the geolocation watch and inbound reportEmergency calls
NextReports == AppLifecycle(MaxSessions, RunningOnly) \/ Geolocation \/ AppInbound
SpecReports == Init /\ [][NextReports]_vars

\* everything
Next == Lifecycle(MaxConnects, AnyState, TRUE) \/ Errors \/ Resumes
          \/ Inbound(ToolMessages \cup AudioMessages) \/ Clock \/ Capture
          \/ AppLifecycle(MaxInstances, AnyState) \/ AppErrors \/ AppResumes
          \/ Geolocation \/ AppInbound
Spec == Init /\ [][Next]_vars

\* ---------------------------------------------------------------------------
\* properties
\* ---------------------------------------------------------------------------
OpenInputs  == {k \in Calls : inCtx[k] \in {"suspended", "running"}}
OpenOutputs == {k \in Calls : outCtx[k] \in {"suspended", "running"}}
LiveMics    == {k \in Calls : mic[k] = "live"}
HeldChans   == {k \in Calls : chan[k] \in {"connecting", "open"}}

\* the instance references no resource
Disconnected ==
  /\ inputAudioContext = NoRef /\ outputAudioContext = NoRef
  /\ stream = NoRef /\ processor = NoRef /\ source = NoRef
  /\ currentSession = NoRef

\* no release operation has been performed yet: no stop() or teardown has
\* followed a connect()
NoTeardownYet == \A k \in Calls :
  /\ released["inCtx"][k] = 0 /\ released["outCtx"][k] = 0
  /\ released["mic"][k] = 0 /\ released["proc"][k] = 0

\* C1: as long as no stop()/teardown has intervened, however many times
\* connect() was called, at most one set of device resources is held: one
\* input context, one output context, one microphone stream, one channel.
C1_NoDoubleOpen ==
  NoTeardownYet =>
    /\ Cardinality(OpenInputs) <= 1
    /\ Cardinality(OpenOutputs) <= 1
    /\ Cardinality(LiveMics) <= 1
    /\ Cardinality(HeldChans) <= 1

\* what stop() leaves behind, seen from the step that performs the teardown:
\* every resource the instance referenced is released and no reference is kept
TornDownByStep ==
  /\ Disconnected'
  /\ processor # NoRef => ~proc'[processor].cb
  /\ stream # NoRef => mic'[stream] = "stopped"
  /\ inputAudioContext # NoRef => inCtx'[inputAudioContext] = "closed"
  /\ outputAudioContext # NoRef => outCtx'[outputAudioContext] = "closed"

\* C3: a step of the channel's on-close callback, and a step of its on-error
\* callback, performs the teardown of stop().
C3_CloseAndErrorTearDown ==
  [][\A k \in Calls : (ChannelClose(k) \/ ChannelError(k)) => TornDownByStep]_vars

\* C7: the step in which the microphone request of connect() call k is denied
\* leaves the instance Disconnected with the two contexts of call k closed.
C7_MicDeniedReleases ==
  [][\A k \in Calls : ConnectMicDenied(k) =>
       /\ Disconnected'
       /\ inCtx'[k] = "closed"
       /\ outCtx'[k] = "closed"]_vars

\* C8: the step in which the session promise of connect() call k rejects leaves
\* the instance Disconnected with the contexts and the microphone stream of
\* call k released.
C8_RejectedOpenTearsDown ==
  [][\A k \in Calls : ConnectSessionRejected(k) =>
       /\ Disconnected'
       /\ inCtx'[k] = "closed"
       /\ outCtx'[k] = "closed"
       /\ mic'[k] = "stopped"]_vars

\* the references, the platform objects and the release operations performed
resVars == <<inputAudioContext, outputAudioContext, stream, processor, source,
             currentSession, inCtx, outCtx, mic, chan, proc, released>>

\* C6: stop() on an instance that is already Disconnected performs no release
\* operation and leaves every reference and every resource as it was, and no
\* resource is ever released twice.
C6_IdempotentStop ==
  /\ [](\A kind \in DOMAIN released : \A k \in Calls : released[kind][k] <= 1)
  /\ [][(Disconnected /\ Stop) => UNCHANGED resVars]_vars

\* stop() has run twice: once before channel 1 opened (on-open then found no
\* capture resources and created no processor) and once, on the Disconnected
\* instance, after on-open had notified 'Live'
C6_Witness ==
  /\ Disconnected
  /\ status = "Disconnected"
  /\ chan[1] = "open" /\ proc[1] = NoProc
  /\ pc[1] = "awaitSession"
  /\ \A k \in Calls : k > 1 => pc[k] = "idle"
  /\ released["inCtx"][1] = 1 /\ released["mic"][1] = 1

\* C5: a frame whose callback found no session reference is never sent, neither
\* by its own callback nor by any later step, also after a session reference
\* has become available; a frame is sent only on the session its callback found.
C5_DroppedFrameNeverSent ==
  \A i \in 1..Len(sent) :
    /\ frames[sent[i].frame].session # NoRef
    /\ sent[i].chan = frames[sent[i].frame].session

\* a frame was dropped for want of a session and a later frame was sent
C5_Witness ==
  \E i, j \in 1..Len(frames) :
    /\ i < j
    /\ frames[i].session = NoRef
    /\ \E n \in 1..Len(sent) : sent[n].frame = j

AllMessages == ToolMessages \cup AudioMessages

\* the argument objects, and the ids, of the reportEmergency requests of a
\* functionCalls list, in the order of the list
RECURSIVE ReportArgs(_)
ReportArgs(cs) ==
  IF cs = << >> THEN << >>
  ELSE (IF Head(cs).name = "reportEmergency" THEN <<Head(cs).args>> ELSE << >>)
         \o ReportArgs(Tail(cs))

RECURSIVE ReportIds(_)
ReportIds(cs) ==
  IF cs = << >> THEN << >>
  ELSE (IF Head(cs).name = "reportEmergency" THEN <<Head(cs).id>> ELSE << >>)
         \o ReportIds(Tail(cs))

\* this step invokes onReportSubmitted for message i = m exactly as the claim says
EmitsReportsOf(i, m) ==
  LET as == ReportArgs(m.tool.calls) IN
    reports' = reports \o [j \in 1..Len(as) |-> [msg |-> i, args |-> as[j]]]

\* this step leaves handler i suspended at its decode await
Suspends(i) == handlers'[i].state = "decoding"

\* this step enters handleMessage for a new message
Delivers == Len(handlers') = Len(handlers) + 1

\* this step resumes handler i from its decode await and runs it to the end
Settles(i) ==
  /\ i <= Len(handlers) /\ handlers[i].state = "decoding"
  /\ Len(handlers') = Len(handlers) /\ handlers'[i].state # "decoding"

\* C4: the step that runs the tool-call part of the handler of a message invokes
\* onReportSubmitted once per reportEmergency request of that message, with the
\* request's argument object, in the order of the requests, and for no other
\* request; no other step invokes it.
C4_OneReportPerRequest ==
  [][/\ Delivers =>
          \A k \in Calls, m \in AllMessages :
            ChannelMessage(k, m) =>
              IF Suspends(Len(handlers) + 1) THEN reports' = reports
              ELSE EmitsReportsOf(Len(handlers) + 1, m)
     /\ \A i \in 1..MaxMsgs : Settles(i) => EmitsReportsOf(i, handlers[i].msg)
     /\ reports' # reports => (Delivers \/ \E i \in 1..MaxMsgs : Settles(i))]_vars

\* the message with requests reportEmergency(a), other(c), reportEmergency(b)
\* was handled: a then b were reported for it
C4_Witness ==
  \E n \in 1..Len(reports) :
    /\ n + 1 <= Len(reports)
    /\ reports[n].args = "a" /\ reports[n + 1].args = "b"
    /\ reports[n].msg = reports[n + 1].msg

\* this step sends exactly one tool response for message i = m, on a channel,
\* with the ids of its reportEmergency requests
RespondsTo(i, m) ==
  /\ Len(responses') = Len(responses) + 1
  /\ responses'[Len(responses')].msg = i
  /\ responses'[Len(responses')].ids = ReportIds(m.tool.calls)

\* no connect() call is suspended: each one made has returned or thrown
ConnectsSettled == \A k \in Calls : pc[k] \in {"idle", "done", "failed"}

\* C2: the step that runs the tool-call part of the handler of a message with a
\* reportEmergency request sends exactly one response carrying the request ids,
\* in whatever state the message is handled.  Stated for the messages handled
\* while no connect() call is in flight, which includes those handled after
\* stop() has cleared the session reference.
C2_AlwaysOneResponse ==
  [][ConnectsSettled =>
     /\ Delivers =>
          \A k \in Calls, m \in AllMessages :
            (ChannelMessage(k, m) /\ ~Suspends(Len(handlers) + 1)
               /\ ReportIds(m.tool.calls) # << >>) => RespondsTo(Len(handlers) + 1, m)
     /\ \A i \in 1..MaxMsgs :
          (Settles(i) /\ ReportIds(handlers[i].msg.tool.calls) # << >>)
             => RespondsTo(i, handlers[i].msg)]_vars

\* a tool call that is malformed or names no recognized tool
BadTool(m) ==
  \/ m.tool.kind = "malformed"
  \/ m.tool.kind = "calls" /\ ReportIds(m.tool.calls) = << >>

SomeHandlerThrew == \E j \in 1..Len(handlers) : handlers[j].state = "threw"

\* C10: the step that runs the tool-call part of a message whose tool call is
\* malformed or unrecognized changes no reference and no resource, reports
\* nothing and sends nothing, and moves the playhead only by the duration of a
\* buffer the same message had scheduled; and a message handled after a handler
\* has thrown has its reports delivered as any other.
C10_ToolCallIsolation ==
  [][/\ Delivers =>
          \A k \in Calls, m \in AllMessages :
            ChannelMessage(k, m) =>
              /\ BadTool(m) =>
                   /\ UNCHANGED <<resVars, reports, responses, scheduled>>
                   /\ m.audio = "none" => nextStartTime' = nextStartTime
              /\ (SomeHandlerThrew /\ ~Suspends(Len(handlers) + 1))
                   => EmitsReportsOf(Len(handlers) + 1, m)
     /\ \A i \in 1..MaxMsgs :
          Settles(i) =>
            /\ BadTool(handlers[i].msg) =>
                 /\ UNCHANGED <<resVars, reports, responses>>
                 /\ nextStartTime' = nextStartTime +
                      (IF Len(scheduled') > Len(scheduled) THEN handlers[i].msg.dur ELSE 0)
            /\ SomeHandlerThrew => EmitsReportsOf(i, handlers[i].msg)]_vars

\* the handler of a malformed tool call threw, and a later message was handled
\* to the end: its report was delivered and answered on a session still held
C10_Witness ==
  \E i, j \in 1..Len(handlers) :
    /\ i < j
    /\ handlers[i].state = "threw"
    /\ handlers[j].state = "done"
    /\ \E n \in 1..Len(reports) : reports[n].msg = j
    /\ \E n \in 1..Len(responses) : responses[n].msg = j
    /\ currentSession # NoRef /\ outputAudioContext # NoRef

\* C9: every scheduled buffer starts no earlier than the end (start plus
\* duration) of the buffer scheduled before it, and nextStartTime never decreases.
C9_PlayheadMonotone ==
  /\ [](\A i \in 2..Len(scheduled) :
          scheduled[i].start >= scheduled[i - 1].start + scheduled[i - 1].dur)
  /\ [][nextStartTime' >= nextStartTime]_vars

\* two buffers were scheduled in one session, the first at a clock time that
\* had advanced, the second at the end of the first
C9_Witness ==
  /\ Len(scheduled) >= 2
  /\ scheduled[1].start > 0
  /\ scheduled[2].ctx = scheduled[1].ctx
  /\ scheduled[2].start = scheduled[1].start + scheduled[1].dur

\* C11: the step in which the decode of a message's audio fails releases nothing
\* and clears no reference, schedules nothing and leaves the playhead where it
\* was, and handles the tool calls of the same message as for any message; and
\* every step in which a decode succeeds on a held output context schedules the
\* buffer at the playhead and advances the playhead by its duration.
C11_DecodeFailureSkipped ==
  [][\A i \in 1..MaxMsgs :
       Settles(i) =>
         LET m == handlers[i].msg IN
           /\ m.audio = "bad" =>
                /\ UNCHANGED <<resVars, status, scheduled, nextStartTime>>
                /\ m.tool.kind # "malformed" =>
                     /\ handlers'[i].state = "done"
                     /\ EmitsReportsOf(i, m)
                     /\ (ReportIds(m.tool.calls) # << >> /\ currentSession # NoRef)
                          => RespondsTo(i, m)
           /\ (m.audio = "ok" /\ outputAudioContext # NoRef) =>
                /\ scheduled' = Append(scheduled,
                                       [msg |-> i, ctx |-> outputAudioContext,
                                        start |-> nextStartTime, dur |-> m.dur])
                /\ nextStartTime' = nextStartTime + m.dur]_vars

\* the decode of a message failed while the session was held, its two reports
\* were delivered and answered, and the audio of a later message was scheduled;
\* nothing has been torn down
C11_Witness ==
  /\ NoTeardownYet
  /\ currentSession # NoRef
  /\ \E n \in 1..Len(reports), r \in 1..Len(responses), x \in 1..Len(scheduled) :
       /\ reports[n].args = "b"
       /\ responses[r].msg = reports[n].msg
       /\ scheduled[x].msg > reports[n].msg
       /\ scheduled[x].dur > 0

\* C12: every frame sent was sent on a channel whose on-open callback had fired;
\* a capture frame callback becomes installed only in an on-open step; and the
\* status becomes 'Live' only in an on-open step.
C12_NoSendBeforeOpen ==
  /\ [](\A n \in 1..Len(sent) : chan[sent[n].chan] \in {"open", "closed"})
  /\ [][\A p \in Calls : (~proc[p].cb /\ proc'[p].cb) => ChannelOpen(p)]_vars
  /\ [][(status # "Live" /\ status' = "Live") => \E k \in Calls : ChannelOpen(k)]_vars

\* a frame callback ran after on-open but before the session was stored and
\* sent nothing; a later one sent its frame on the open channel
C12_Witness ==
  /\ status = "Live"
  /\ \E n \in 1..Len(sent) :
       /\ chan[sent[n].chan] = "open"
       /\ proc[sent[n].chan].cb
       /\ sent[n].frame > 1
       /\ frames[1].proc = sent[n].chan
       /\ frames[1].session = NoRef

\* stop() (or the teardown of on-close) has run since the latest connect() call
\* began: that call's input context, which only a teardown releases, is released
StoppedSinceConnect ==
  \E k \in Calls :
    /\ pc[k] # "idle"
    /\ \A j \in Calls : j > k => pc[j] = "idle"
    /\ released["inCtx"][k] > 0

\* C13: once stop() has run and no later connect() has been called, the instance
\* references no audio context, microphone stream, processor, source or session,
\* also after a connect() call that was suspended when stop() ran has resumed.
C13_NothingHeldAfterStop ==
  StoppedSinceConnect => Disconnected

\* this step is the call of connect() number k
Starts(k) == pc[k] = "idle" /\ pc'[k] # "idle"

\* C14: a connect() called on an instance that stop() has left Disconnected,
\* every earlier connect() having returned, begins with no channel of the
\* instance still connecting or open: the previous session's channel has been
\* closed, not merely dereferenced, so the new channel is the only active one.
C14_OneActiveChannel ==
  [][\A k \in Calls :
       (Starts(k) /\ ConnectsSettled /\ Disconnected) => HeldChans = {}]_vars

\* instance i holds a device resource or a channel that has not been released
Holding(i) ==
  \/ svc[i].inCtx \in {"suspended", "running"}
  \/ svc[i].outCtx \in {"suspended", "running"}
  \/ svc[i].mic = "live"
  \/ svc[i].chan \in {"connecting", "open"}

\* C15: whatever the sequence of toggleConnection invocations, an instance that
\* holds audio contexts, a microphone stream or a channel is the one geminiRef
\* refers to, so at most one instance holds resources and it can be stopped.
C15_ExclusiveOwnership ==
  \A i \in Insts : Holding(i) => geminiRef = i

\* this step runs the report callback
Reports == Len(appReports') = Len(appReports) + 1

\* this step runs the report callback for the draft `data`
ReportsDraft(data) ==
  \/ \E i \in Insts, audio \in BOOLEAN :
       SvcToolCall(i, data, audio) /\ appReports' # appReports
  \/ \E n \in 1..Len(pendingDrafts) :
       pendingDrafts[n].data = data /\ SvcDecodeSettled(n)

\* the draft has a latitude and a longitude
CarriesCoordinates(data) ==
  data.latitude.t = "number" /\ data.longitude.t = "number"

\* C16 as stated: the report of a draft that carries coordinates is located at
\* them; without coordinates it is located at the device location when one is
\* known, and at (34.0522, -118.2437) otherwise.
C16_LocationFallback ==
  [][Reports =>
       \A data \in Drafts :
         ReportsDraft(data) =>
           Head(appReports').location =
             IF CarriesCoordinates(data)
               THEN GeoLocation(data.latitude.v, data.longitude.v)
             ELSE IF userLocationRef # NoLocation THEN userLocationRef
             ELSE DefaultLocation]_vars

\* the number a coordinate field converts to, if any: null converts to 0
Converts(x) == x.t \in {"number", "null"}
Converted(x) == IF x.t = "number" THEN x.v ELSE 0

\* both fields convert to numbers and the pair is not (0, 0)
UsableCoordinates(data) ==
  /\ Converts(data.latitude) /\ Converts(data.longitude)
  /\ ~(Converted(data.latitude) = 0 /\ Converted(data.longitude) = 0)

\* C16 amended: the report is located at (Number(latitude), Number(longitude))
\* when both convert to numbers and are not both zero; otherwise at the device
\* location when one is known; otherwise at (34.0522, -118.2437).
C16_LocationFallbackNonZero ==
  [][Reports =>
       \A data \in Drafts :
         ReportsDraft(data) =>
           LET location == Head(appReports').location IN
             /\ UsableCoordinates(data) =>
                  location = GeoLocation(Converted(data.latitude), Converted(data.longitude))
             /\ (~UsableCoordinates(data) /\ userLocationRef # NoLocation) =>
                  location = userLocationRef
             /\ (~UsableCoordinates(data) /\ userLocationRef = NoLocation) =>
                  location = DefaultLocation]_vars

\* a draft with latitude 0 and a longitude was reported at its own coordinates
\* although a device location was known
C16_Witness ==
  /\ Len(appReports) > 0
  /\ appReports[1].location = GeoLocation(0, 70000)
  /\ ~appReports[1].device
  /\ userLocationRef # NoLocation

\* C17: the report of a draft without latitude and longitude, resolved while a
\* device location is known, is located at the location the geolocation watch
\* delivered last before the callback ran, whatever location was passed to
\* connect() and however the updates interleave with connect() and the message.
C17_FreshDeviceLocation ==
  [][Reports =>
       \A data \in Drafts :
         (/\ ReportsDraft(data)
          /\ data.latitude = Undefined /\ data.longitude = Undefined
          /\ userLocationRef # NoLocation)
           => Head(appReports').location = userLocationRef]_vars

\* a report was located at the device location, which is not the location any
\* connect() call was given: connect() was called with a known location and
\* the watch has delivered another one since
C17_Witness ==
  /\ Len(appReports) > 0
  /\ appReports[1].device
  /\ appReports[1].location = userLocationRef
  /\ \E i \in Insts : svc[i].loc # NoLocation
  /\ \A i \in Insts : svc[i].pc # "none" => svc[i].loc # userLocationRef

\* C18: the level of every frame callback has been notified exactly once, in the
\* order of the callbacks and also for the frames that found no session to be
\* sent on; and once stop() has run, and until connect() is called again, no
\* level is notified.
C18_LevelPerFrame ==
  /\ [](levels = [n \in 1..Len(frames) |-> n])
  /\ [][StoppedSinceConnect => levels' = levels]_vars

\* C19: the step that schedules a buffer passes a start time that is not
\* earlier than the current time of the output context at that step, although
\* the clock may have advanced while the handler was suspended at its decode.
C19_StartNotInThePast ==
  [][\A i \in 1..MaxMsgs :
       (Settles(i) /\ Len(scheduled') = Len(scheduled) + 1) =>
         LET b == scheduled'[Len(scheduled')] IN b.start >= outTime[b.ctx]]_vars

\* C20: of two buffers scheduled on the same output context, the one whose
\* message was delivered first has the earlier start time, in whichever order
\* the decodes of the two handlers settled.
C20_ArrivalOrder ==
  \A x, y \in 1..Len(scheduled) :
    (scheduled[x].msg < scheduled[y].msg /\ scheduled[x].ctx = scheduled[y].ctx)
      => scheduled[x].start < scheduled[y].start

\* this step makes no tool-response send, or makes exactly one, for message
\* i = m, listing the ids of its reportEmergency requests in their order and
\* nothing else; it makes none when the message has no such request
SendsAtMostOnce(i, m) ==
  \/ responses' = responses
  \/ /\ ReportIds(m.tool.calls) # << >>
     /\ RespondsTo(i, m)
     /\ SubSeq(responses', 1, Len(responses)) = responses

\* C21: the step that runs the tool-call part of a message makes at most one
\* tool-response send; the send lists one entry per reportEmergency request of
\* the message, with the ids in the order of the requests, and no entry for a
\* request of another name; no send is made for a message without a
\* reportEmergency request; and no other step sends a tool response.
C21_OneBatchedResponse ==
  [][/\ Delivers =>
          \A k \in Calls, m \in AllMessages :
            ChannelMessage(k, m) =>
              IF Suspends(Len(handlers) + 1) THEN responses' = responses
              ELSE SendsAtMostOnce(Len(handlers) + 1, m)
     /\ \A i \in 1..MaxMsgs : Settles(i) => SendsAtMostOnce(i, handlers[i].msg)
     /\ responses' # responses => (Delivers \/ \E i \in 1..MaxMsgs : Settles(i))]_vars

\* the message with requests 1 (reportEmergency), 2 (other), 3 (reportEmergency)
\* was answered by one send listing 1 and 3, and a message whose only request
\* names another tool was handled to the end with no report and no send
C21_Witness ==
  \E i, j \in 1..Len(handlers) :
    /\ i # j
    /\ handlers[i].state = "done" /\ handlers[j].state = "done"
    /\ \E r \in 1..Len(responses) : responses[r].msg = i /\ responses[r].ids = <<1, 3>>
    /\ Cardinality({r \in 1..Len(responses) : responses[r].msg = i}) = 1
    /\ \A r \in 1..Len(responses) : responses[r].msg # j
    /\ \A n \in 1..Len(reports) : reports[n].msg # j
    /\ currentSession # NoRef /\ NoTeardownYet

\* C22: while the status last notified is 'Disconnected', that is after stop()
\* or the teardown of on-close has run and before a later connect() or on-open
\* has notified anything, no step invokes onReportSubmitted.
C22_NoReportsAfterStop ==
  [][status = "Disconnected" => reports' = reports]_vars

\* C23: the on-open step, which notifies 'Live', finds an input context and a
\* microphone stream on the instance and installs the frame callback of its
\* processor; so 'Live' never follows 'Disconnected' on an instance whose
\* resources stop() has released.
C23_LiveMeansWired ==
  [][\A k \in Calls :
       ChannelOpen(k) =>
         /\ inputAudioContext # NoRef /\ stream # NoRef
         /\ proc'[k].cb
         /\ ~StoppedSinceConnect]_vars

\* C24: the first buffer scheduled on the output context of a connect() that
\* was called after stop() had released the context of an earlier call, for a
\* message received on the channel of that connect(), starts at the current
\* time of the new context.
C24_PlayheadNotCarriedOver ==
  [][\A i \in 1..MaxMsgs :
       (Settles(i) /\ Len(scheduled') = Len(scheduled) + 1) =>
         LET b == scheduled'[Len(scheduled')] IN
           (/\ handlers[i].chan = b.ctx
            /\ \A x \in 1..Len(scheduled) : scheduled[x].ctx # b.ctx
            /\ \E k \in Calls : k < b.ctx /\ released["outCtx"][k] > 0)
             => b.start = outTime[b.ctx]]_vars

====
